---- MODULE Spec2Model ----
(***************************************************************************)
(* LLM Internals Explorer: the Attention Head Profiler view, the query     *)
(* layer it reads through, the API client, the navigation store, and the   *)
(* profiler backend (Profile Cache, Query Service) those reads end at.     *)
(*                                                                         *)
(* The frontend definitions are translated from the TypeScript sources.    *)
(* The profiler backend is not part of the checked-out sources; it is      *)
(* modelled from the design text, sections 4.3, 4.5 and 4.6.               *)
(***************************************************************************)
EXTENDS Integers, Sequences, FiniteSets, TLC

(* ------------------------------ bounds --------------------------------- *)
\* The model architecture, scaled down from 12 x 12.
NumLayers == 2
HeadsPerLayer == 3
\* How often the deployment parameters change in one behaviour.
MaxChanges == 1
\* How many pipeline executions fail in one behaviour.
MaxFailures == 1

\* The upper end of the attention view's layer and head sliders (max="11").
SliderMax == 11

(* --------------------------- nullable values --------------------------- *)
\* null / undefined of the TypeScript code; a present value v is <<v>>.
Null == <<>>
Some(v) == <<v>>

(* ------------------------------ the store ------------------------------ *)
ModuleId ==
  {"architecture", "tokenizer", "embeddings", "attention",
   "profiler", "context", "redteaming", "router"}

\* The sidebar: const navItems (id, label), the separator included.
navItems ==
  <<[id |-> "architecture", label |-> "Architecture", isSeparator |-> FALSE],
    [id |-> "tokenizer", label |-> "Tokenizer Lab", isSeparator |-> FALSE],
    [id |-> "embeddings", label |-> "Embeddings", isSeparator |-> FALSE],
    [id |-> "attention", label |-> "Attention", isSeparator |-> FALSE],
    [id |-> "profiler", label |-> "Attention Head Profiler", isSeparator |-> FALSE],
    [id |-> "context", label |-> "Context Window", isSeparator |-> FALSE],
    [id |-> "separator", label |-> "", isSeparator |-> TRUE],
    [id |-> "redteaming", label |-> "Security Analysis", isSeparator |-> FALSE],
    [id |-> "router", label |-> "Cost Router", isSeparator |-> FALSE]>>

\* The ids of the sidebar's buttons (a separator renders no button).
NavIds == {navItems[i].id : i \in {j \in DOMAIN navItems : ~navItems[j].isSeparator}}

\* const moduleComponents: the component MainLayout renders for each id.
moduleComponents ==
  [architecture |-> "ArchitectureModule", tokenizer |-> "TokenizerModule",
   embeddings |-> "EmbeddingsModule", attention |-> "AttentionModule",
   profiler |-> "AttentionHeadProfilerModule", context |-> "ContextWindowModule",
   redteaming |-> "RedTeamingModule", router |-> "CostRouterModule"]

\* ContextBar: const moduleLabels.
moduleLabels ==
  [architecture |-> "LLM Architecture", tokenizer |-> "Tokenizer Lab",
   embeddings |-> "Embedding Space", attention |-> "Attention Mechanism",
   context |-> "Context Window", redteaming |-> "Red Teaming",
   router |-> "Smart Cost Router"]

\* The Features list of the frontend README.
ReadmeFeatures ==
  {"Dashboard", "Tokenizer Lab", "Embeddings", "Attention Mechanism",
   "Context Window", "Red Teaming", "Cost Router", "Analytics"}

(* ---------------------------- the API client --------------------------- *)
\* The functions of the attentionApi object.
attentionApi == {"analyze"}

\* The functions of the tokenizerApi object.
tokenizerApi == {"tokenize"}

\* The functions of attentionApi the profiler view calls.
ProfilerReads ==
  {"getHeadProfiles", "getHeadExamples", "getClusterInfo", "getMetadata",
   "getHeadExplanation"}

(* --------------------------- the query layer --------------------------- *)
QProfiles == [name |-> "head-profiles", args |-> <<>>]
QMetadata == [name |-> "profiler-metadata", args |-> <<>>]
QExamplesNoHead(l, h) == [name |-> "head-examples", args |-> <<l, 0>>]
QExamples(l, h) == [name |-> "head-examples", args |-> <<l, h>>]
QCluster(c) == [name |-> "cluster-info", args |-> <<c>>]
QExplanation(l, h) == [name |-> "head-explanation", args |-> <<l, h>>]
QTokenizeAnyText(text) == [name |-> "tokenize", args |-> <<>>]
QTokenize(text) == [name |-> "tokenize", args |-> <<text>>]

\* The API function a query's queryFn calls.
queryFn(q) ==
  CASE q.name = "tokenize" -> "tokenize"
    [] q.name = "head-profiles" -> "getHeadProfiles"
    [] q.name = "head-examples" -> "getHeadExamples"
    [] q.name = "cluster-info" -> "getClusterInfo"
    [] q.name = "profiler-metadata" -> "getMetadata"
    [] q.name = "head-explanation" -> "getHeadExplanation"

staleTimeZero(q) == "0"

\* The staleTime option of a query ("0" is the library default).
staleTime(q) ==
  IF q.name \in {"head-profiles", "profiler-metadata"} THEN "Infinity" ELSE "0"

\* Failed attempts are retried this many times (library default of useQuery).
retry == 3


(* -------------------- the profiler backend (design) -------------------- *)
Heads == (0 .. NumLayers - 1) \X (0 .. HeadsPerLayer - 1)
HeadIndex(h) == h[1] * HeadsPerLayer + h[2]

\* The role taxonomy, in the order the README and the view list it.
Roles ==
  <<"Syntax Trackers", "Semantic Linkers", "Positional Encoders",
    "Rare Pattern Detectors", "Context Aggregators">>

Models == {"gpt2", "gpt2-v2"}
Corpora == {"corpus-a", "corpus-b"}
KValues == {4, 5, 6}
Seeds == {"s42", "s7"}

\* The cache key: model identity, corpus content hash, k, the two seeds.
Keys ==
  [model : Models, corpus : Corpora, k : KValues,
   reducerSeed : Seeds, clustererSeed : Seeds]

\* The documented deployment: five clusters.
BaseKey ==
  [model |-> "gpt2", corpus |-> "corpus-a", k |-> 5,
   reducerSeed |-> "s42", clustererSeed |-> "s42"]

\* Keys that differ from key in exactly one parameter.
OneChange(key) ==
  {n \in Keys :
     Cardinality({f \in DOMAIN key : n[f] # key[f]}) = 1}

\* Deployments the view is checked against: the documented one, and those
\* with another cluster count or another clusterer seed.
Deployments ==
  {BaseKey} \cup {n \in OneChange(BaseKey) : n.k # 5 \/ n.clustererSeed # "s42"}

\* Clusterer: every head gets one cluster id in 0 .. k-1, all k groups used.
ClusterOf(key, h) == HeadIndex(h) % key.k

\* Label assignment: the role whose pattern matches the cluster's centroid.
\* Which cluster id a centroid gets depends on the clusterer's seed.
CentroidRole(key, c) ==
  Roles[((c + (IF key.clustererSeed = "s42" THEN 0 ELSE 1)) % Len(Roles)) + 1]

HeadSeq == [i \in 1 .. NumLayers * HeadsPerLayer |->
              <<(i - 1) \div HeadsPerLayer, (i - 1) % HeadsPerLayer>>]

\* The projected points of a snapshot, one per head, each with its cluster.
Points(snap) ==
  [i \in 1 .. Len(HeadSeq) |->
     [layer |-> HeadSeq[i][1], head |-> HeadSeq[i][2],
      cluster |-> ClusterOf(snap.key, HeadSeq[i]),
      label |-> CentroidRole(snap.key, ClusterOf(snap.key, HeadSeq[i]))]]

\* Query Service: is the thing a read asks for in the snapshot?
Found(q, snap) ==
  CASE q.name \in {"head-examples", "head-explanation"} ->
         <<q.args[1], q.args[2]>> \in Heads
    [] q.name = "cluster-info" -> q.args[1] \in 0 .. snap.key.k - 1
    [] OTHER -> TRUE

(* ------------------------------- state --------------------------------- *)
VARIABLES
  activeModule,      \* store: the module shown
  sidebarCollapsed,  \* store
  mathModeEnabled,   \* store
  api,               \* the functions the imported attentionApi object has
  selectedHead,      \* profiler view: HeadPoint | null
  selectedCluster,   \* profiler view: number | null
  queries,           \* query cache: query -> its state
  cfg,               \* backend: the deployment's current key
  cache,             \* backend Profile Cache: key -> entry
  execCount,         \* backend: pipeline executions started, per key
  changes,           \* parameter changes so far
  failures,          \* failed pipeline executions so far
  selectedBlock,     \* architecture view: ArchBlock | null
  hoveredBlock,      \* architecture view: string | null
  inputText,         \* tokenizer view: the textarea's text
  posted,            \* tokenize query -> the text its request carries
  attText,           \* attention view: text
  attLayer,          \* attention view: layer
  attHead,           \* attention view: head
  hoveredCell,       \* attention view: { row, col } | null
  mutation,          \* attention view: the useMutation result
  call,              \* a function under test and its arguments
  result             \* what that function returned, once applied

vars ==
  <<activeModule, sidebarCollapsed, mathModeEnabled, api, selectedHead,
    selectedCluster, queries, cfg, cache, execCount, changes, failures,
    selectedBlock, hoveredBlock, inputText, posted, attText, attLayer,
    attHead, hoveredCell, mutation, call, result>>

storeVars == <<activeModule, sidebarCollapsed, mathModeEnabled>>
viewVars == <<selectedHead, selectedCluster>>
backendVars == <<cfg, cache, execCount, changes, failures>>
archVars == <<selectedBlock, hoveredBlock>>
tokVars == <<inputText, posted>>
pureVars == <<call, result>>
attVars == <<attText, attLayer, attHead, hoveredCell, mutation>>
otherVars == <<archVars, tokVars, attVars, pureVars>>

(* ------------------------- query layer, continued ---------------------- *)
NoReq == "none"

\* A query as the cache creates it: no data, no error, not fetching.
NewQuery == [data |-> Null, error |-> "none", reason |-> "none", fc |-> 0,
             req |-> NoReq]

\* One attempt of a fetch failed with error e: retry, or give up with e.
Failed(rec, e) ==
  IF rec.fc < retry
    THEN [rec EXCEPT !.fc = @ + 1, !.reason = e, !.req = "retry"]
    ELSE [rec EXCEPT !.error = e, !.reason = e, !.req = NoReq]

\* Run the queryFn: call the attentionApi function, which sends the request;
\* calling a function the object does not have throws a TypeError.
Invoke(a, q, rec) ==
  IF queryFn(q) \in a
    THEN [rec EXCEPT !.req = "sent"]
    ELSE Failed(rec, "TypeError")

\* Fetch query q unless a fetch of it is already running.
Fetch(a, qs, q) ==
  LET rec == IF q \in DOMAIN qs THEN qs[q] ELSE NewQuery IN
  IF rec.req # "none"
    THEN (q :> rec) @@ qs
    ELSE (q :> Invoke(a, q,
                 [rec EXCEPT !.fc = 0, !.reason = "none",
                             !.error = IF rec.data = Null THEN "none" ELSE @]))
         @@ qs

IsStale(qs, q) ==
  \/ q \notin DOMAIN qs
  \/ qs[q].data = Null
  \/ staleTime(q) = "0"

\* An observer subscribes to q (mount, or its key changed to q).
Observe(a, qs, q) == IF IsStale(qs, q) THEN Fetch(a, qs, q) ELSE (q :> qs[q]) @@ qs

RECURSIVE ObserveAll(_, _, _)
ObserveAll(a, qs, Q) ==
  IF Q = {} THEN qs
  ELSE LET q == CHOOSE x \in Q : TRUE IN
       ObserveAll(a, Observe(a, qs, q), Q \ {q})


Empty == [x \in {} |-> TRUE]

(* --------------------------- the profiler view ------------------------- *)
mounted == activeModule = "profiler"

\* const { data, isLoading, error } = useQuery(...) for query q.
Data(q) == IF q \in DOMAIN queries THEN queries[q].data ELSE Null
isLoadingOf(q) ==
  q \in DOMAIN queries /\ queries[q].data = Null /\ queries[q].req # "none"
errorOf(q) == q \in DOMAIN queries /\ queries[q].error # "none"

\* const points = profilesData?.points || []
points == IF Data(QProfiles) = Null THEN <<>> ELSE Points(Data(QProfiles)[1])

\* The plot and the legend are rendered.
plotShown ==
  mounted /\ ~isLoadingOf(QProfiles) /\ ~errorOf(QProfiles) /\ Len(points) > 0

\* The legend entries: [0, 1, 2, 3, 4].
LegendIds == 0 .. 4

\* The points (by index) the pointer clicks and enters, and the legend
\* entries it clicks.
PointerClick == {1}
PointerHover == {1, 5}
PointerLegend == {0, 4}
\* The points clicked one after the other when heads are compared.
PointerSelect == {1, 2}

\* The colour of cluster id c: CLUSTER_COLORS[c], undefined past the end.
CLUSTER_COLORS == <<"#3b82f6", "#10b981", "#f59e0b", "#ef4444", "#8b5cf6">>
ColorOf(c) ==
  IF c + 1 \in DOMAIN CLUSTER_COLORS THEN CLUSTER_COLORS[c + 1] ELSE "undefined"

\* The plotted markers, one button per element of points.map.
MarkersColoured ==
  LET idx == {i \in 1 .. Len(points) : ColorOf(points[i].cluster) # "undefined"} IN
  [i \in 1 .. Cardinality(idx) |->
     LET j == CHOOSE j \in idx : Cardinality({m \in idx : m < j}) = i - 1 IN
     [key |-> j - 1, point |-> points[j],
      backgroundColor |-> ColorOf(points[j].cluster)]]

Markers ==
  [i \in 1 .. Len(points) |->
     [key |-> i - 1, point |-> points[i],
      backgroundColor |-> ColorOf(points[i].cluster)]]

\* points.find(p => p.cluster === clusterId)?.label || `Cluster ${clusterId}`
clusterLabel(clusterId) ==
  LET hits == {i \in 1 .. Len(points) : points[i].cluster = clusterId} IN
  IF hits # {} /\ points[CHOOSE i \in hits : \A j \in hits : i <= j].label # ""
    THEN points[CHOOSE i \in hits : \A j \in hits : i <= j].label
    ELSE "Cluster " \o ToString(clusterId)

\* points.filter(p => p.cluster === clusterId).length
count(clusterId) ==
  Cardinality({i \in 1 .. Len(points) : points[i].cluster = clusterId})

\* The legend: one button per id of [0, 1, 2, 3, 4].
Legend ==
  [clusterId \in LegendIds |->
     [label |-> clusterLabel(clusterId), count |-> count(clusterId),
      backgroundColor |-> ColorOf(clusterId)]]

\* The "What This Shows" list: role i in the colour CLUSTER_COLORS[i].
RoleList == [i \in 1 .. Len(Roles) |-> [role |-> Roles[i], color |-> ColorOf(i - 1)]]

\* The cluster panel is rendered: {clusterData && ...}.
clusterData == IF selectedCluster = Null THEN Null ELSE Data(QCluster(selectedCluster[1]))

\* The "How to use" panel: {!selectedHead && !selectedCluster && (...)};
\* !selectedCluster is true for null and for the number 0.
instructionsShown ==
  /\ mounted
  /\ selectedHead = Null
  /\ (selectedCluster = Null \/ selectedCluster[1] = 0)

\* const { data: examplesData } and const { data: explanation } of the
\* render: the data of the query whose key holds the selected head, together
\* with the (layer, head) that query's request carried.
examplesData ==
  IF selectedHead = Null THEN Null
  ELSE LET q == QExamples(selectedHead[1].layer, selectedHead[1].head) IN
       IF Data(q) = Null THEN Null
       ELSE Some([layer |-> q.args[1], head |-> q.args[2], snap |-> Data(q)[1]])
explanation ==
  IF selectedHead = Null THEN Null
  ELSE LET q == QExplanation(selectedHead[1].layer, selectedHead[1].head) IN
       IF Data(q) = Null THEN Null
       ELSE Some([layer |-> q.args[1], head |-> q.args[2], snap |-> Data(q)[1]])

\* The queries the mounted view observes with enabled = true.
Observed(sh, sc) ==
  {QProfiles, QMetadata}
    \cup (IF sh = Null THEN {}
          ELSE {QExamples(sh[1].layer, sh[1].head),
                QExplanation(sh[1].layer, sh[1].head)})
    \cup (IF sc = Null THEN {} ELSE {QCluster(sc[1])})

(* --------------------------- the attention view ------------------------ *)
attMounted == activeModule = "attention"

\* useState('The quick brown fox jumps over the lazy dog')
InitialAttentionText == "The quick brown fox jumps over the lazy dog"

\* The texts the textarea is edited to.
AttentionTexts == {InitialAttentionText, "Hello world", ""}

\* <input type="range" min="0" max="11" />: the values e.target.value takes.
SliderValues ==
  <<"0", "1", "2", "3", "4", "5", "6", "7", "8", "9", "10", "11">>

\* As NumberOf, but counting the slider's stops from one.
NumberOfStop(value) ==
  CHOOSE i \in DOMAIN SliderValues : SliderValues[i] = value

\* Number(e.target.value) of a slider value.
NumberOf(value) ==
  (CHOOSE i \in DOMAIN SliderValues : SliderValues[i] = value) - 1

\* useMutation before the first mutate.
IdleMutation == [status |-> "idle", variables |-> Null, data |-> Null]

\* The number of tokens in the response for a text.
TokenCount(t) ==
  CASE t = InitialAttentionText -> 9
    [] t = "Hello world" -> 2
    [] t = "" -> 0

\* The response of POST /api/attention/analyze as the view reads it: tokens
\* and attention_matrix (one row and one column per token), layer, head.
AnalyzeResponse(data) ==
  [tokens |-> TokenCount(data.text), rows |-> TokenCount(data.text),
   cols |-> TokenCount(data.text), layer |-> data.layer, head |-> data.head]

\* const result = mutation.data; tokens = result?.tokens || [];
\* matrix = result?.attention_matrix || []: their lengths.
tokensLength == IF mutation.data = Null THEN 0 ELSE mutation.data[1].tokens
matrixLength == IF mutation.data = Null THEN 0 ELSE mutation.data[1].rows
rowLength == IF mutation.data = Null THEN 0 ELSE mutation.data[1].cols

\* {result && ... {tokens.length > 0 && matrix.length > 0 && (heatmap)}}
heatmapShown ==
  attMounted /\ mutation.data # Null /\ tokensLength > 0 /\ matrixLength > 0

\* {hoveredCell && (<motion.div> Connection ... </motion.div>)}
hoverInfoShown == heatmapShown /\ hoveredCell # Null

\* The cells the pointer enters.
PointerCells == {<<0, 0>>, <<1, 0>>, <<8, 8>>}

(* --------------------------- the tokenizer view ------------------------ *)
tokMounted == activeModule = "tokenizer"

\* useState('The quick brown fox jumps over the lazy dog.')
InitialText == "The quick brown fox jumps over the lazy dog."

\* The texts the textarea is edited to.
Texts == {"", InitialText, "hello"}

\* enabled: inputText.length > 0
tokEnabled(text) == text # ""

\* useQuery({ queryKey: ['tokenize', inputText], ... }) as the render with
\* this text subscribes: the query exists in the cache; it is fetched when
\* enabled and stale.
ObserveTokenize(qs, text) ==
  IF tokEnabled(text)
    THEN Observe(tokenizerApi, qs, QTokenize(text))
    ELSE qs @@ (QTokenize(text) :> NewQuery)

\* queryFn: () => tokenizerApi.tokenize(inputText): the requests sent
\* between qs and qs2 carry the text of the render that sent them.
Posted(qs, qs2, text) ==
  [q \in {x \in DOMAIN qs2 :
            /\ x.name = "tokenize"
            /\ qs2[x].req = "sent"
            /\ (x \notin DOMAIN qs \/ qs[x].req # "sent")} |-> text] @@ posted

\* const { data, isLoading, error } = useQuery(...)
tokenizeData == Data(QTokenize(inputText))

\* const tokens = data?.tokens || []; const stats = data?.stats || {...}:
\* the text whose tokens and statistics the panel shows, if any.
tokensShown ==
  IF tokMounted /\ tokenizeData # Null THEN Some(tokenizeData[1].text) ELSE Null

\* Query q has an observer: a mounted view's useQuery holds its key.
IsObserved(q) ==
  \/ mounted /\ q \in Observed(selectedHead, selectedCluster)
  \/ tokMounted /\ q = QTokenize(inputText)

(* ------------------------------ actions -------------------------------- *)
\* Sidebar: onClick={() => setActiveModule(item.id)}; the module of the old
\* id unmounts (its state is dropped), the module of the new id mounts.
setActiveModule(m) ==
  /\ activeModule' = m
  /\ selectedHead' = Null
  /\ selectedCluster' = Null
  /\ queries' = IF m = "profiler" /\ ~mounted
                  THEN ObserveAll(api, queries, Observed(Null, Null))
                  ELSE IF m = "tokenizer" /\ ~tokMounted
                  THEN ObserveTokenize(queries, InitialText)
                  ELSE queries
  /\ m # activeModule
  /\ selectedBlock' = Null
  /\ hoveredBlock' = Null
  /\ inputText' = InitialText
  /\ posted' = Posted(queries, queries', InitialText)
  /\ attText' = InitialAttentionText
  /\ attLayer' = 0
  /\ attHead' = 0
  /\ hoveredCell' = Null
  /\ mutation' = IdleMutation
  /\ UNCHANGED <<sidebarCollapsed, mathModeEnabled, api>>
  /\ UNCHANGED backendVars
  /\ UNCHANGED pureVars

\* As NavItemClick, but the separator is rendered as a button as well.
NavItemClickAny(i) == setActiveModule(navItems[i].id)

\* Sidebar, navItems.map: if (item.isSeparator) a divider is returned, else
\* a button with onClick={() => setActiveModule(item.id as ModuleId)}.
NavItemClick(i) ==
  /\ ~navItems[i].isSeparator
  /\ setActiveModule(navItems[i].id)

\* ContextBar: <h1>{moduleLabels[activeModule]}</h1>; a missing key reads
\* as undefined and renders nothing.
title ==
  IF activeModule \in DOMAIN moduleLabels
    THEN Some(moduleLabels[activeModule])
    ELSE Null

toggleSidebar ==
  /\ sidebarCollapsed' = ~sidebarCollapsed
  /\ UNCHANGED <<activeModule, mathModeEnabled, api, queries>>
  /\ UNCHANGED viewVars
  /\ UNCHANGED backendVars
  /\ UNCHANGED otherVars

toggleMathMode ==
  /\ mathModeEnabled' = ~mathModeEnabled
  /\ UNCHANGED <<activeModule, sidebarCollapsed, api, queries>>
  /\ UNCHANGED viewVars
  /\ UNCHANGED backendVars
  /\ UNCHANGED otherVars

\* As ClickPoint, but the click also fetches the head profiles again.
ClickPointRefetching(i) ==
  /\ plotShown
  /\ i \in 1 .. Len(points)
  /\ selectedHead' = Some(points[i])
  /\ queries' = Fetch(api,
                  ObserveAll(api, queries,
                    Observed(selectedHead', selectedCluster)
                      \ Observed(selectedHead, selectedCluster)),
                  QProfiles)
  /\ UNCHANGED <<selectedCluster, api>>
  /\ UNCHANGED storeVars
  /\ UNCHANGED backendVars
  /\ UNCHANGED otherVars

\* Plot point: onClick={() => setSelectedHead(point)}.
ClickPoint(i) ==
  /\ plotShown
  /\ i \in 1 .. Len(points)
  /\ selectedHead' = Some(points[i])
  /\ queries' = ObserveAll(api, queries,
                  Observed(selectedHead', selectedCluster)
                    \ Observed(selectedHead, selectedCluster))
  /\ UNCHANGED <<selectedCluster, api>>
  /\ UNCHANGED storeVars
  /\ UNCHANGED backendVars
  /\ UNCHANGED otherVars

\* Plot point: onMouseEnter={() => setSelectedCluster(point.cluster)}.
HoverPoint(i) ==
  /\ plotShown
  /\ i \in 1 .. Len(points)
  /\ selectedCluster' = Some(points[i].cluster)
  /\ queries' = ObserveAll(api, queries,
                  Observed(selectedHead, selectedCluster')
                    \ Observed(selectedHead, selectedCluster))
  /\ UNCHANGED <<selectedHead, api>>
  /\ UNCHANGED storeVars
  /\ UNCHANGED backendVars
  /\ UNCHANGED otherVars

\* Legend entry: onClick={() => setSelectedCluster(clusterId)}.
ClickLegend(c) ==
  /\ plotShown
  /\ selectedCluster' = Some(c)
  /\ queries' = ObserveAll(api, queries,
                  Observed(selectedHead, selectedCluster')
                    \ Observed(selectedHead, selectedCluster))
  /\ UNCHANGED <<selectedHead, api>>
  /\ UNCHANGED storeVars
  /\ UNCHANGED backendVars
  /\ UNCHANGED otherVars

\* The window regains focus: observed stale queries are fetched again.
WindowFocus ==
  /\ mounted
  /\ queries' = ObserveAll(api, queries, Observed(selectedHead, selectedCluster))
  /\ queries' # queries
  /\ UNCHANGED api
  /\ UNCHANGED storeVars
  /\ UNCHANGED viewVars
  /\ UNCHANGED backendVars
  /\ UNCHANGED otherVars

\* The retry delay of a failed attempt is over: the queryFn runs again,
\* unless the query has lost its last observer (the retry is cancelled).
RetryTimer(q) ==
  /\ q \in DOMAIN queries
  /\ queries[q].req = "retry"
  /\ IsObserved(q)
  /\ queries' = [queries EXCEPT ![q] =
                   Invoke(IF q.name = "tokenize" THEN tokenizerApi ELSE api, q, @)]
  /\ UNCHANGED api
  /\ UNCHANGED storeVars
  /\ UNCHANGED viewVars
  /\ UNCHANGED backendVars
  /\ UNCHANGED otherVars

\* The request of a query is answered with data (the promise resolves).
Resolved(rec, snap) ==
  [rec EXCEPT !.data = Some(snap), !.error = "none", !.reason = "none",
              !.fc = 0, !.req = NoReq]

(* ------------------- backend: Profile Cache (design) ------------------- *)
Execs(key) == IF key \in DOMAIN execCount THEN execCount[key] ELSE 0

\* What the Query Service answers a read from a published snapshot.
Answer(q, rec, snap) ==
  IF Found(q, snap) THEN Resolved(rec, snap) ELSE Failed(rec, "NotFound")

\* As Handle, but a request for a key being computed starts the pipeline again.
HandleUncoalesced(q) ==
  /\ q \in DOMAIN queries
  /\ queries[q].req = "sent"
  /\ IF cfg \in DOMAIN cache /\ cache[cfg].status = "ready"
       THEN /\ queries' = [queries EXCEPT ![q] = Answer(q, @, cache[cfg].snap)]
            /\ UNCHANGED <<cache, execCount>>
       ELSE /\ queries' = [queries EXCEPT ![q].req = "waiting"]
            /\ cache' =
                 (cfg :> [status |-> "computing",
                          snap |-> [key |-> cfg, exec |-> Execs(cfg) + 1],
                          waiters |-> (IF cfg \in DOMAIN cache
                                         THEN cache[cfg].waiters ELSE {}) \cup {q}])
                 @@ cache
            /\ execCount' = (cfg :> Execs(cfg) + 1) @@ execCount
  /\ UNCHANGED <<cfg, changes, failures, api>>
  /\ UNCHANGED storeVars
  /\ UNCHANGED viewVars
  /\ UNCHANGED otherVars

\* As Handle, but one lock guards all keys: while any key is being computed,
\* a request for a key without snapshot queues behind that computation.
HandleOneLock(q) ==
  /\ q \in DOMAIN queries
  /\ queries[q].req = "sent"
  /\ IF cfg \in DOMAIN cache /\ cache[cfg].status = "ready"
       THEN /\ queries' = [queries EXCEPT ![q] = Answer(q, @, cache[cfg].snap)]
            /\ UNCHANGED <<cache, execCount>>
       ELSE /\ queries' = [queries EXCEPT ![q].req = "waiting"]
            /\ IF \E key \in DOMAIN cache : cache[key].status = "computing"
                 THEN /\ cache' =
                           LET busy == CHOOSE key \in DOMAIN cache :
                                         cache[key].status = "computing"
                           IN  [cache EXCEPT ![busy].waiters = @ \cup {q}]
                      /\ UNCHANGED execCount
                 ELSE /\ cache' =
                           (cfg :> [status |-> "computing",
                                    snap |-> [key |-> cfg, exec |-> Execs(cfg) + 1],
                                    waiters |-> {q}]) @@ cache
                      /\ execCount' = (cfg :> Execs(cfg) + 1) @@ execCount
  /\ UNCHANGED <<cfg, changes, failures, api>>
  /\ UNCHANGED storeVars
  /\ UNCHANGED viewVars
  /\ UNCHANGED otherVars

\* An endpoint receives the request of query q: getOrCompute(cfg, pipeline),
\* then the lookup. A hit answers; a miss starts the pipeline; a request for
\* a key being computed waits for that computation.
Handle(q) ==
  /\ q \in DOMAIN queries
  /\ queries[q].req = "sent"
  /\ IF cfg \in DOMAIN cache /\ cache[cfg].status = "ready"
       THEN /\ queries' = [queries EXCEPT ![q] = Answer(q, @, cache[cfg].snap)]
            /\ UNCHANGED <<cache, execCount>>
       ELSE /\ queries' = [queries EXCEPT ![q].req = "waiting"]
            /\ IF cfg \in DOMAIN cache
                 THEN /\ cache' = [cache EXCEPT ![cfg].waiters = @ \cup {q}]
                      /\ UNCHANGED execCount
                 ELSE /\ cache' =
                           (cfg :> [status |-> "computing",
                                    snap |-> [key |-> cfg, exec |-> Execs(cfg) + 1],
                                    waiters |-> {q}]) @@ cache
                      /\ execCount' = (cfg :> Execs(cfg) + 1) @@ execCount
  /\ UNCHANGED <<cfg, changes, failures, api>>
  /\ UNCHANGED storeVars
  /\ UNCHANGED viewVars
  /\ UNCHANGED otherVars

\* The pipeline of key finishes: the snapshot is published, waiters answered.
ComputeOk(key) ==
  /\ key \in DOMAIN cache
  /\ cache[key].status = "computing"
  /\ cache' = [cache EXCEPT ![key].status = "ready", ![key].waiters = {}]
  /\ queries' =
       [q \in DOMAIN queries |->
          IF q \in cache[key].waiters
            THEN Answer(q, queries[q], cache[key].snap)
            ELSE queries[q]]
  /\ UNCHANGED <<cfg, execCount, changes, failures, api>>
  /\ UNCHANGED storeVars
  /\ UNCHANGED viewVars
  /\ UNCHANGED otherVars

\* As ComputeFail, but the failure is kept as the key's entry.
ComputeFailKept(key) ==
  /\ key \in DOMAIN cache
  /\ cache[key].status = "computing"
  /\ failures < MaxFailures
  /\ failures' = failures + 1
  /\ cache' = [cache EXCEPT ![key].status = "failed", ![key].waiters = {}]
  /\ queries' =
       [q \in DOMAIN queries |->
          IF q \in cache[key].waiters
            THEN Failed(queries[q], "CacheComputeError")
            ELSE queries[q]]
  /\ UNCHANGED <<cfg, execCount, changes, api>>
  /\ UNCHANGED storeVars
  /\ UNCHANGED viewVars
  /\ UNCHANGED otherVars

\* The pipeline of key fails: every waiter gets the error, no entry is kept.
ComputeFail(key) ==
  /\ key \in DOMAIN cache
  /\ cache[key].status = "computing"
  /\ failures < MaxFailures
  /\ failures' = failures + 1
  /\ cache' = [k \in DOMAIN cache \ {key} |-> cache[k]]
  /\ queries' =
       [q \in DOMAIN queries |->
          IF q \in cache[key].waiters
            THEN Failed(queries[q], "CacheComputeError")
            ELSE queries[q]]
  /\ UNCHANGED <<cfg, execCount, changes, api>>
  /\ UNCHANGED storeVars
  /\ UNCHANGED viewVars
  /\ UNCHANGED otherVars

\* The deployment changes one parameter of the key (model, corpus, k, a seed).
ChangeParam(n) ==
  /\ changes < MaxChanges
  /\ n \in OneChange(cfg)
  /\ cfg' = n
  /\ changes' = changes + 1
  /\ UNCHANGED <<cache, execCount, failures, api, queries>>
  /\ UNCHANGED storeVars
  /\ UNCHANGED viewVars
  /\ UNCHANGED otherVars

(* ----------------------- the attention view, actions ------------------- *)
\* <textarea onChange={(e) => setText(e.target.value)} />
setText(t) ==
  /\ attMounted
  /\ t # attText
  /\ attText' = t
  /\ UNCHANGED <<attLayer, attHead, hoveredCell, mutation>>
  /\ UNCHANGED <<api, queries>>
  /\ UNCHANGED storeVars
  /\ UNCHANGED viewVars
  /\ UNCHANGED backendVars
  /\ UNCHANGED <<archVars, tokVars, pureVars>>

\* Layer slider: onChange={(e) => setLayer(Number(e.target.value))}
setLayer(value) ==
  /\ attMounted
  /\ NumberOf(value) # attLayer
  /\ attLayer' = NumberOf(value)
  /\ UNCHANGED <<attText, attHead, hoveredCell, mutation>>
  /\ UNCHANGED <<api, queries>>
  /\ UNCHANGED storeVars
  /\ UNCHANGED viewVars
  /\ UNCHANGED backendVars
  /\ UNCHANGED <<archVars, tokVars, pureVars>>

\* Head slider: onChange={(e) => setHead(Number(e.target.value))}
setHead(value) ==
  /\ attMounted
  /\ NumberOf(value) # attHead
  /\ attHead' = NumberOf(value)
  /\ UNCHANGED <<attText, attLayer, hoveredCell, mutation>>
  /\ UNCHANGED <<api, queries>>
  /\ UNCHANGED storeVars
  /\ UNCHANGED viewVars
  /\ UNCHANGED backendVars
  /\ UNCHANGED <<archVars, tokVars, pureVars>>

\* Analyze button (disabled={mutation.isPending}), by pointer or keyboard:
\* mutation.mutate({ text, layer, head }); the new mutation has no data.
handleAnalyze ==
  /\ attMounted
  /\ mutation.status # "pending"
  /\ "analyze" \in api
  /\ mutation' = [status |-> "pending",
                  variables |-> Some([text |-> attText, layer |-> attLayer,
                                      head |-> attHead]),
                  data |-> Null]
  /\ UNCHANGED <<attText, attLayer, attHead, hoveredCell>>
  /\ UNCHANGED <<api, queries>>
  /\ UNCHANGED storeVars
  /\ UNCHANGED viewVars
  /\ UNCHANGED backendVars
  /\ UNCHANGED <<archVars, tokVars, pureVars>>

\* POST /api/attention/analyze is answered.
AnalyzeOk ==
  /\ attMounted
  /\ mutation.status = "pending"
  /\ mutation' = [mutation EXCEPT !.status = "success",
                    !.data = Some(AnalyzeResponse(mutation.variables[1]))]
  /\ UNCHANGED <<attText, attLayer, attHead, hoveredCell>>
  /\ UNCHANGED <<api, queries>>
  /\ UNCHANGED storeVars
  /\ UNCHANGED viewVars
  /\ UNCHANGED backendVars
  /\ UNCHANGED <<archVars, tokVars, pureVars>>

\* The request fails: the promise rejects.
AnalyzeFail ==
  /\ attMounted
  /\ mutation.status = "pending"
  /\ mutation' = [mutation EXCEPT !.status = "error"]
  /\ UNCHANGED <<attText, attLayer, attHead, hoveredCell>>
  /\ UNCHANGED <<api, queries>>
  /\ UNCHANGED storeVars
  /\ UNCHANGED viewVars
  /\ UNCHANGED backendVars
  /\ UNCHANGED <<archVars, tokVars, pureVars>>

\* Heatmap cell: onMouseEnter={() => setHoveredCell({ row: rowIdx, col: colIdx })}
CellMouseEnter(rowIdx, colIdx) ==
  /\ heatmapShown
  /\ rowIdx < matrixLength
  /\ colIdx < rowLength
  /\ hoveredCell' = Some([row |-> rowIdx, col |-> colIdx])
  /\ UNCHANGED <<attText, attLayer, attHead, mutation>>
  /\ UNCHANGED <<api, queries>>
  /\ UNCHANGED storeVars
  /\ UNCHANGED viewVars
  /\ UNCHANGED backendVars
  /\ UNCHANGED <<archVars, tokVars, pureVars>>

\* Heatmap cell: onMouseLeave={() => setHoveredCell(null)}; only a rendered
\* cell receives the event.
CellMouseLeave ==
  /\ heatmapShown
  /\ hoveredCell # Null
  /\ hoveredCell[1].row < matrixLength
  /\ hoveredCell[1].col < rowLength
  /\ hoveredCell' = Null
  /\ UNCHANGED <<attText, attLayer, attHead, mutation>>
  /\ UNCHANGED <<api, queries>>
  /\ UNCHANGED storeVars
  /\ UNCHANGED viewVars
  /\ UNCHANGED backendVars
  /\ UNCHANGED <<archVars, tokVars, pureVars>>

(* ----------------------- the tokenizer view, actions ------------------- *)
\* <textarea onChange={(e) => setInputText(e.target.value)} />
setInputText(text) ==
  /\ tokMounted
  /\ text # inputText
  /\ inputText' = text
  /\ queries' = ObserveTokenize(queries, text)
  /\ posted' = Posted(queries, queries', text)
  /\ UNCHANGED api
  /\ UNCHANGED storeVars
  /\ UNCHANGED viewVars
  /\ UNCHANGED backendVars
  /\ UNCHANGED <<archVars, attVars, pureVars>>

\* The window regains focus while the tokenizer is shown: the observed
\* query, if enabled and stale, is fetched again.
TokenizerFocus ==
  /\ tokMounted
  /\ queries' = ObserveTokenize(queries, inputText)
  /\ queries' # queries
  /\ posted' = Posted(queries, queries', inputText)
  /\ UNCHANGED <<api, inputText>>
  /\ UNCHANGED storeVars
  /\ UNCHANGED viewVars
  /\ UNCHANGED backendVars
  /\ UNCHANGED <<archVars, attVars, pureVars>>

\* POST /api/tokenizer/tokenize is answered: the response holds the tokens
\* and statistics of the text the request carried.
TokenizeOk(q) ==
  /\ q \in DOMAIN queries
  /\ q.name = "tokenize"
  /\ queries[q].req = "sent"
  /\ queries' = [queries EXCEPT ![q] = Resolved(@, [text |-> posted[q]])]
  /\ UNCHANGED api
  /\ UNCHANGED storeVars
  /\ UNCHANGED viewVars
  /\ UNCHANGED backendVars
  /\ UNCHANGED otherVars

\* The request fails (network error, error status): the promise rejects.
TokenizeFail(q) ==
  /\ q \in DOMAIN queries
  /\ q.name = "tokenize"
  /\ queries[q].req = "sent"
  /\ queries' = [queries EXCEPT ![q] = Failed(@, "RequestFailed")]
  /\ UNCHANGED api
  /\ UNCHANGED storeVars
  /\ UNCHANGED viewVars
  /\ UNCHANGED backendVars
  /\ UNCHANGED otherVars

(* -------------------------- the architecture view ---------------------- *)
\* const architectureBlocks: ArchBlock[] = [...]: the ids of the blocks.
architectureBlocks ==
  <<"input", "tokenizer", "embedding", "attention", "ffn", "layers", "output">>

BlockIds == {architectureBlocks[i] : i \in DOMAIN architectureBlocks}

\* ArchitectureModule is the mounted module.
archMounted == activeModule = "architecture"

\* {selectedBlock && (<> backdrop, drawer </>)}
drawerOpen == archMounted /\ selectedBlock # Null

\* onClick={() => handleBlockClick(block)}: setSelectedBlock(block).
handleBlockClick(block) ==
  /\ archMounted
  /\ selectedBlock' = Some(block)
  /\ UNCHANGED hoveredBlock
  /\ UNCHANGED <<api, queries>>
  /\ UNCHANGED storeVars
  /\ UNCHANGED viewVars
  /\ UNCHANGED backendVars
  /\ UNCHANGED <<tokVars, attVars, pureVars>>

\* onMouseEnter={() => setHoveredBlock(block.id)}
BlockMouseEnter(block) ==
  /\ archMounted
  /\ hoveredBlock' = Some(block)
  /\ UNCHANGED selectedBlock
  /\ UNCHANGED <<api, queries>>
  /\ UNCHANGED storeVars
  /\ UNCHANGED viewVars
  /\ UNCHANGED backendVars
  /\ UNCHANGED <<tokVars, attVars, pureVars>>

\* onMouseLeave={() => setHoveredBlock(null)}
BlockMouseLeave ==
  /\ archMounted
  /\ hoveredBlock # Null
  /\ hoveredBlock' = Null
  /\ UNCHANGED selectedBlock
  /\ UNCHANGED <<api, queries>>
  /\ UNCHANGED storeVars
  /\ UNCHANGED viewVars
  /\ UNCHANGED backendVars
  /\ UNCHANGED <<tokVars, attVars, pureVars>>

\* As handleEscape, but closing the drawer also drops the hover highlight.
handleEscapeDropsHover ==
  /\ archMounted
  /\ selectedBlock' = Null
  /\ hoveredBlock' = Null
  /\ UNCHANGED <<api, queries>>
  /\ UNCHANGED storeVars
  /\ UNCHANGED viewVars
  /\ UNCHANGED backendVars
  /\ UNCHANGED <<tokVars, attVars, pureVars>>

\* window keydown listener, installed while the module is mounted:
\* if (e.key === 'Escape') setSelectedBlock(null).
handleEscape ==
  /\ archMounted
  /\ selectedBlock' = Null
  /\ UNCHANGED hoveredBlock
  /\ UNCHANGED <<api, queries>>
  /\ UNCHANGED storeVars
  /\ UNCHANGED viewVars
  /\ UNCHANGED backendVars
  /\ UNCHANGED <<tokVars, attVars, pureVars>>

\* The backdrop, rendered with the drawer: onClick={() => setSelectedBlock(null)}.
BackdropClick ==
  /\ drawerOpen
  /\ selectedBlock' = Null
  /\ UNCHANGED hoveredBlock
  /\ UNCHANGED <<api, queries>>
  /\ UNCHANGED storeVars
  /\ UNCHANGED viewVars
  /\ UNCHANGED backendVars
  /\ UNCHANGED <<tokVars, attVars, pureVars>>

\* The drawer's close button: onClick={() => setSelectedBlock(null)}.
CloseClick ==
  /\ drawerOpen
  /\ selectedBlock' = Null
  /\ UNCHANGED hoveredBlock
  /\ UNCHANGED <<api, queries>>
  /\ UNCHANGED storeVars
  /\ UNCHANGED viewVars
  /\ UNCHANGED backendVars
  /\ UNCHANGED <<tokVars, attVars, pureVars>>

(* --------------------------- specifications ---------------------------- *)
InitCommon ==
  /\ activeModule = "architecture"
  /\ sidebarCollapsed = FALSE
  /\ mathModeEnabled = FALSE
  /\ selectedHead = Null
  /\ selectedCluster = Null
  /\ queries = Empty
  /\ cache = Empty
  /\ execCount = Empty
  /\ changes = 0
  /\ failures = 0
  /\ selectedBlock = Null
  /\ hoveredBlock = Null
  /\ inputText = InitialText
  /\ posted = Empty
  /\ attText = InitialAttentionText
  /\ attLayer = 0
  /\ attHead = 0
  /\ hoveredCell = Null
  /\ mutation = IdleMutation

\* No function is under test.
NoCall == call = Null /\ result = Null

\* The application as the sources have it.
Init == InitCommon /\ NoCall /\ api = attentionApi /\ cfg = BaseKey

Next ==
  \/ \E i \in DOMAIN navItems : NavItemClick(i)
  \/ toggleSidebar
  \/ toggleMathMode
  \/ WindowFocus
  \/ \E q \in DOMAIN queries : RetryTimer(q)
  \/ \E block \in BlockIds : handleBlockClick(block)
  \/ \E block \in BlockIds : BlockMouseEnter(block)
  \/ BlockMouseLeave
  \/ handleEscape
  \/ BackdropClick
  \/ CloseClick

Spec == Init /\ [][Next]_vars

\* The interface the profiler view is written against: attentionApi with the
\* five functions the view calls.
ViewApi == attentionApi \cup ProfilerReads

\* The profiler view over that interface and the backend the functions
\* reach, for each deployment.
InitView == InitCommon /\ NoCall /\ api = ViewApi /\ cfg \in Deployments

NextView ==
  \/ \E m \in {"architecture", "profiler"} : setActiveModule(m)
  \/ \E i \in PointerClick : ClickPoint(i)
  \/ \E i \in PointerHover : HoverPoint(i)
  \/ \E c \in PointerLegend : ClickLegend(c)
  \/ WindowFocus
  \/ \E q \in DOMAIN queries : RetryTimer(q)
  \/ \E q \in DOMAIN queries : Handle(q)
  \/ \E key \in DOMAIN cache : ComputeOk(key)
  \/ \E key \in DOMAIN cache : ComputeFail(key)

SpecView == InitView /\ [][NextView]_vars

\* The same view while the deployment's parameters change.
InitKey == InitCommon /\ NoCall /\ api = ViewApi /\ cfg = BaseKey

NextKey ==
  \/ \E m \in {"architecture", "profiler"} : setActiveModule(m)
  \/ \E q \in DOMAIN queries : Handle(q)
  \/ \E key \in DOMAIN cache : ComputeOk(key)
  \/ \E n \in Keys : ChangeParam(n)

SpecKey == InitKey /\ [][NextKey]_vars

\* The view while the user clicks one head after another; the server
\* answers every request it gets and every pipeline it starts finishes.
AllQueries ==
  {QProfiles, QMetadata}
    \cup {QExamples(h[1], h[2]) : h \in Heads}
    \cup {QExplanation(h[1], h[2]) : h \in Heads}

NextSelect ==
  \/ \E m \in {"architecture", "profiler"} : setActiveModule(m)
  \/ \E i \in PointerSelect : ClickPoint(i)
  \/ \E q \in DOMAIN queries : Handle(q)
  \/ \E key \in DOMAIN cache : ComputeOk(key)

SpecSelect ==
  /\ InitKey
  /\ [][NextSelect]_vars
  /\ \A q \in AllQueries : WF_vars(Handle(q))
  /\ WF_vars(ComputeOk(BaseKey))


\* The tokenizer view with the tokenizer endpoint answering or failing, the
\* user editing the text and leaving and re-entering the module.
NextTokenizer ==
  \/ \E m \in {"architecture", "tokenizer"} : setActiveModule(m)
  \/ \E text \in Texts : setInputText(text)
  \/ TokenizerFocus
  \/ \E q \in DOMAIN queries : TokenizeOk(q)
  \/ \E q \in DOMAIN queries : TokenizeFail(q)
  \/ \E q \in DOMAIN queries : RetryTimer(q)

SpecTokenizer == Init /\ [][NextTokenizer]_vars

\* The attention view's sliders and Analyze button, with the endpoint
\* answering or failing.
NextSliders ==
  \/ \E m \in {"architecture", "attention"} : setActiveModule(m)
  \/ \E i \in DOMAIN SliderValues : setLayer(SliderValues[i])
  \/ \E i \in DOMAIN SliderValues : setHead(SliderValues[i])
  \/ handleAnalyze
  \/ AnalyzeOk
  \/ AnalyzeFail

SpecSliders == Init /\ [][NextSliders]_vars

\* The attention view's heatmap: text edits, the sliders at their ends,
\* Analyze, answers, and the pointer over the cells.
NextAttention ==
  \/ \E m \in {"architecture", "attention"} : setActiveModule(m)
  \/ \E t \in AttentionTexts : setText(t)
  \/ \E value \in {SliderValues[1], SliderValues[Len(SliderValues)]} :
       setLayer(value)
  \/ \E value \in {SliderValues[1], SliderValues[Len(SliderValues)]} :
       setHead(value)
  \/ handleAnalyze
  \/ AnalyzeOk
  \/ AnalyzeFail
  \/ \E cell \in PointerCells : CellMouseEnter(cell[1], cell[2])
  \/ CellMouseLeave

SpecAttention == Init /\ [][NextAttention]_vars

(* ------------------------- numbers of the views ------------------------ *)
\* Coordinates are multiples of 1 / CoordUnit: the integer n stands for the
\* number n / CoordUnit.
CoordUnit == 2
MaxCoord == 2
MaxPoints == 2
Coords == 0 .. MaxCoord

\* A JavaScript number: a fraction num / den (den > 0), NaN or Infinity.
Number(n, d) == [kind |-> "number", num |-> n, den |-> d]
NaN == [kind |-> "NaN", num |-> 0, den |-> 1]
Infinity == [kind |-> "Infinity", num |-> 0, den |-> 1]

\* a / b for integers a >= 0, b >= 0: 0 / 0 is NaN, a / 0 is Infinity.
Divide(a, b) ==
  IF b # 0 THEN Number(a, b) ELSE IF a = 0 THEN NaN ELSE Infinity

\* q * n, n + q and n - q for an integer n > 0; NaN and Infinity stay.
Times(q, n) == IF q.kind = "number" THEN Number(q.num * n, q.den) ELSE q
Plus(n, q) == IF q.kind = "number" THEN Number(n * q.den + q.num, q.den) ELSE q
Minus(n, q) ==
  IF q.kind = "number" THEN Number(n * q.den - q.num, q.den)
  ELSE IF q.kind = "NaN" THEN NaN
  ELSE [kind |-> "-Infinity", num |-> 0, den |-> 1]

\* lo <= q <= hi for a defined number q.
Within(q, lo, hi) ==
  q.kind = "number" /\ lo * q.den <= q.num /\ q.num <= hi * q.den

\* Math.min(...values), Math.max(...values) of a non-empty list.
MathMin(values) ==
  CHOOSE v \in {values[i] : i \in DOMAIN values} :
    \A i \in DOMAIN values : v <= values[i]
MathMax(values) ==
  CHOOSE v \in {values[i] : i \in DOMAIN values} :
    \A i \in DOMAIN values : v >= values[i]

\* Point lists with coordinates, as a projection delivers them.
Coord3 == [x : Coords, y : Coords, z : Coords]
PointLists == UNION {[1 .. n -> Coord3] : n \in 1 .. MaxPoints}

(* ------------------- profiler view: marker positions ------------------- *)
\* const normalizeCoord = (value, min, max) => ((value - min) / (max - min)) * 100
normalizeCoord(value, min, max) == Times(Divide(value - min, max - min), 100)

xValues(pts) == [i \in DOMAIN pts |-> pts[i].x]
yValues(pts) == [i \in DOMAIN pts |-> pts[i].y]
zValues(pts) == [i \in DOMAIN pts |-> pts[i].z]

\* The style of the button of point i of points.map: left and top in
\* percent, width and height in px.
MarkerStyle(pts, i) ==
  LET x == normalizeCoord(pts[i].x, MathMin(xValues(pts)), MathMax(xValues(pts)))
      y == Minus(100, normalizeCoord(pts[i].y, MathMin(yValues(pts)),
                                     MathMax(yValues(pts))))
      size == Plus(4, Times(Divide(pts[i].z - MathMin(zValues(pts)),
                                   MathMax(zValues(pts)) - MathMin(zValues(pts))),
                            4))
  IN  [left |-> x, top |-> y, width |-> size, height |-> size]

\* The plot of a loaded, non-empty point list is rendered.
RenderPlot ==
  /\ call # Null
  /\ call[1].fn = "RenderPlot"
  /\ result = Null
  /\ result' = Some([i \in DOMAIN call[1].points |->
                       MarkerStyle(call[1].points, i)])
  /\ UNCHANGED <<call, api, queries>>
  /\ UNCHANGED storeVars
  /\ UNCHANGED viewVars
  /\ UNCHANGED backendVars
  /\ UNCHANGED archVars
  /\ UNCHANGED tokVars
  /\ UNCHANGED attVars

(* --------------- Embeddings3DVisualization: normalizedPoints ----------- *)
\* maxX - minX || 1: a range of 0 is replaced by the number 1.
Range(values) ==
  IF MathMax(values) - MathMin(values) = 0 THEN CoordUnit
  ELSE MathMax(values) - MathMin(values)

\* Math.max(rangeX, rangeY, rangeZ)
maxRange(pts) ==
  MathMax(<<Range(xValues(pts)), Range(yValues(pts)), Range(zValues(pts))>>)

\* const normalizedPoints = useMemo(...): [] for no points, else every
\* coordinate becomes ((p.c - minC) / maxRange) * 4 - 2.
normalizedPoints(pts) ==
  IF Len(pts) = 0 THEN <<>>
  ELSE [i \in DOMAIN pts |->
          [x |-> Plus(-2, Times(Divide(pts[i].x - MathMin(xValues(pts)),
                                       maxRange(pts)), 4)),
           y |-> Plus(-2, Times(Divide(pts[i].y - MathMin(yValues(pts)),
                                       maxRange(pts)), 4)),
           z |-> Plus(-2, Times(Divide(pts[i].z - MathMin(zValues(pts)),
                                       maxRange(pts)), 4))]]

\* Embeddings3DVisualization renders a point list.
NormalizePoints ==
  /\ call # Null
  /\ call[1].fn = "normalizedPoints"
  /\ result = Null
  /\ result' = Some(normalizedPoints(call[1].points))
  /\ UNCHANGED <<call, api, queries>>
  /\ UNCHANGED storeVars
  /\ UNCHANGED viewVars
  /\ UNCHANGED backendVars
  /\ UNCHANGED archVars
  /\ UNCHANGED tokVars
  /\ UNCHANGED attVars

(* ------------------ profiler view: the stability line ------------------ *)
\* Scores and deviations are written in hundredths: the integer n stands
\* for n / 100. A stability score lies in [-1, 1].
ScoreUnit == 100
ScoreValues == (0 - ScoreUnit) .. ScoreUnit
StdValues == {Null, Some(0), Some(5)}

\* The run metadata the view may hold: none yet, or an object with or
\* without a stability score.
MetadataValues ==
  {Null} \cup {Some([stability_score |-> sc, stability_std |-> sd]) :
               sc \in {Null} \cup {Some(v) : v \in ScoreValues}, sd \in StdValues}

\* value.toFixed(2) of n / 100: sign, integer digits, two decimals.
toFixed2(n) ==
  [negative |-> n < 0,
   int |-> (IF n < 0 THEN 0 - n ELSE n) \div ScoreUnit,
   frac |-> (IF n < 0 THEN 0 - n ELSE n) % ScoreUnit]

\* {metadata?.stability_score && (<div>Cluster Stability (ARI): ...</div>)}:
\* undefined renders nothing, the number 0 renders as the text "0", any
\* other number renders the line.
StabilityLine(metadata) ==
  IF metadata = Null \/ metadata[1].stability_score = Null
    THEN [node |-> "nothing"]
  ELSE IF metadata[1].stability_score[1] = 0
    THEN [node |-> "text", text |-> "0"]
  ELSE [node |-> "div", label |-> "Cluster Stability (ARI)",
        score |-> toFixed2(metadata[1].stability_score[1]),
        std |-> IF metadata[1].stability_std = Null
                  THEN "0.05"
                  ELSE toFixed2(metadata[1].stability_std[1])]

\* The header of the profiler view is rendered.
RenderHeader ==
  /\ call # Null
  /\ call[1].fn = "RenderHeader"
  /\ result = Null
  /\ result' = Some(StabilityLine(call[1].metadata))
  /\ UNCHANGED <<call, api, queries>>
  /\ UNCHANGED storeVars
  /\ UNCHANGED viewVars
  /\ UNCHANGED backendVars
  /\ UNCHANGED archVars
  /\ UNCHANGED tokVars
  /\ UNCHANGED attVars

\* The rendering functions, each applied to every input of its domain.
InitRender ==
  /\ InitCommon
  /\ api = attentionApi
  /\ cfg = BaseKey
  /\ result = Null
  /\ \/ \E pts \in PointLists :
          call = Some([fn |-> "RenderPlot", points |-> pts])
     \/ \E pts \in PointLists \cup {<<>>} :
          call = Some([fn |-> "normalizedPoints", points |-> pts])
     \/ \E md \in MetadataValues :
          call = Some([fn |-> "RenderHeader", metadata |-> md])

NextRender ==
  \/ RenderPlot
  \/ NormalizePoints
  \/ RenderHeader

SpecRender == InitRender /\ [][NextRender]_vars

(* ------------------- backend: Evidence Index (design) ------------------ *)
MaxSentences == 2
MaxTopN == 2

\* (source token, target token) pairs with their attention weight in
\* hundredths, as one head's observation of a sentence holds them.
TokenPairs ==
  {[from_token |-> "the", to_token |-> "cat", weight |-> 90],
   [from_token |-> "dog", to_token |-> "ran", weight |-> 95],
   [from_token |-> "a", to_token |-> "mat", weight |-> 50]}

\* One head's observations: per sentence the pairs of the sentence.
Observations ==
  UNION {[1 .. n -> (SUBSET TokenPairs) \ {{}}] : n \in 0 .. MaxSentences}

\* As Candidates, but with every pair of every sentence.
RECURSIVE CandidatesAllPairs(_)
CandidatesAllPairs(obs) ==
  IF obs = <<>> THEN {}
  ELSE CandidatesAllPairs(SubSeq(obs, 1, Len(obs) - 1))
         \cup {[sentence |-> Len(obs), from_token |-> p.from_token,
                to_token |-> p.to_token, weight |-> p.weight] :
               p \in obs[Len(obs)]}

\* The single highest-weight pair of each sentence.
Candidates(obs) ==
  {LET p == CHOOSE p \in obs[i] : \A o \in obs[i] : o.weight <= p.weight IN
     [sentence |-> i, from_token |-> p.from_token, to_token |-> p.to_token,
      weight |-> p.weight] : i \in DOMAIN obs}

\* The n heaviest of a set of candidates, heaviest first (equal weights in
\* sentence order).
RECURSIVE TopByWeight(_, _)
TopByWeight(cands, n) ==
  IF n = 0 \/ cands = {} THEN <<>>
  ELSE LET best == CHOOSE c \in cands :
                     \A o \in cands :
                       \/ o.weight < c.weight
                       \/ (o.weight = c.weight /\ c.sentence <= o.sentence)
       IN  <<best>> \o TopByWeight(cands \ {best}, n - 1)

\* buildEvidence(observations, topN), for one head.
buildEvidence(obs, topN) == TopByWeight(Candidates(obs), topN)

\* The EXAMPLE PATTERNS list of the view: examplesData.examples.map(...),
\* nothing for an empty list; the weight shown in percent.
ExamplePatterns(examples) ==
  IF Len(examples) > 0
    THEN Some([idx \in DOMAIN examples |->
                 [key |-> idx - 1, sentence |-> examples[idx].sentence,
                  from_token |-> examples[idx].from_token,
                  to_token |-> examples[idx].to_token,
                  percent |-> examples[idx].weight]])
    ELSE Null

\* The evidence of a head is built and the view lists it.
BuildEvidence ==
  /\ call # Null
  /\ call[1].fn = "buildEvidence"
  /\ result = Null
  /\ result' =
       LET examples == buildEvidence(call[1].observations, call[1].topN) IN
       Some([examples |-> examples, shown |-> ExamplePatterns(examples)])
  /\ UNCHANGED <<call, api, queries>>
  /\ UNCHANGED storeVars
  /\ UNCHANGED viewVars
  /\ UNCHANGED backendVars
  /\ UNCHANGED archVars
  /\ UNCHANGED tokVars
  /\ UNCHANGED attVars

InitEvidence ==
  /\ InitCommon
  /\ api = ViewApi
  /\ cfg = BaseKey
  /\ result = Null
  /\ \E obs \in Observations, topN \in 1 .. MaxTopN :
       call = Some([fn |-> "buildEvidence", observations |-> obs, topN |-> topN])

NextEvidence ==
  \/ BuildEvidence

SpecEvidence == InitEvidence /\ [][NextEvidence]_vars

(* ------------------------ the API client, in full ---------------------- *)
\* The Endpoints section of the backend README: method and path.
ReadmeEndpoints ==
  {<<"GET", "/api/dashboard/stats">>, <<"GET", "/api/dashboard/activity">>,
   <<"GET", "/api/dashboard/usage">>, <<"POST", "/api/tokenizer/tokenize">>,
   <<"POST", "/api/cost/analyze">>, <<"GET", "/api/cost/models">>,
   <<"GET", "/api/analytics/monthly-report">>,
   <<"GET", "/api/analytics/cost-trend">>,
   <<"GET", "/api/analytics/quality-trend">>,
   <<"GET", "/api/analytics/bloat-trend">>,
   <<"POST", "/api/security/analyze">>, <<"POST", "/api/embeddings/generate">>,
   <<"POST", "/api/attention/analyze">>, <<"GET", "/api/context/recall-curve">>}

\* An optional argument left out. Argument values are written as the
\* template strings of the URLs print them.
Undefined == "undefined"

\* new Date(): the year and month of the call.
NowYear == "2026"
NowMonth == "11"

\* The values the arguments of a call take.
YearArgs == {Undefined, "2024", "2025", "2026"}
MonthArgs == {Undefined, "1", "6", "11", "12"}
DaysArgs == {Undefined, "7", "30", "90", "365"}
MaxTokensArgs == {Undefined, "8000"}
BodyArgs == {"b1", "b2", "b3"}

\* The exported API objects with their functions, and the calls of each
\* function over the argument values.
ApiFunctions ==
  [dashboardApi |-> {"getStats", "getActivity", "getUsage"},
   tokenizerApi |-> {"tokenize"},
   costApi |-> {"analyze", "getModels"},
   analyticsApi |-> {"getMonthlyReport", "getCostTrend", "getQualityTrend",
                     "getBloatTrend"},
   securityApi |-> {"analyze"},
   embeddingsApi |-> {"generate"},
   attentionApi |-> attentionApi,
   contextApi |-> {"getRecallCurve"}]

ArgsOf(object, function) ==
  CASE object = "dashboardApi" -> {<<>>}
    [] object = "costApi" /\ function = "getModels" -> {<<>>}
    [] function = "getMonthlyReport" ->
         {<<y, m>> : y \in YearArgs, m \in MonthArgs}
    [] object = "analyticsApi" -> {<<d>> : d \in DaysArgs}
    [] object = "contextApi" -> {<<t>> : t \in MaxTokensArgs}
    [] OTHER -> {<<b>> : b \in BodyArgs}

ApiCalls ==
  UNION {UNION {{[object |-> o, function |-> f, args |-> a] : a \in ArgsOf(o, f)} :
                f \in ApiFunctions[o]} : o \in DOMAIN ApiFunctions}

\* value || fallback and a default parameter value.
OrElse(value, fallback) == IF value = Undefined THEN fallback ELSE value

\* As Request, but with the path of every analytics call under /api/reports.
RequestReports(c) ==
  IF c.object = "analyticsApi"
    THEN [method |-> "GET", path |-> "/api/reports", query |-> <<>>, body |-> Null]
    ELSE [method |-> "POST", path |-> "/api/" \o c.function, query |-> <<>>,
          body |-> Null]

\* The request a call hands to apiClient.get / apiClient.post: the method,
\* the URL's path, the URL's query string, the body.
Request(c) ==
  LET get(p, qs) == [method |-> "GET", path |-> p, query |-> qs, body |-> Null]
      post(p, b) == [method |-> "POST", path |-> p, query |-> <<>>, body |-> Some(b)]
  IN
  CASE c.object = "dashboardApi" /\ c.function = "getStats" ->
         get("/api/dashboard/stats", <<>>)
    [] c.object = "dashboardApi" /\ c.function = "getActivity" ->
         get("/api/dashboard/activity", <<>>)
    [] c.object = "dashboardApi" /\ c.function = "getUsage" ->
         get("/api/dashboard/usage", <<>>)
    [] c.object = "tokenizerApi" /\ c.function = "tokenize" ->
         post("/api/tokenizer/tokenize", [text |-> c.args[1]])
    [] c.object = "costApi" /\ c.function = "analyze" ->
         post("/api/cost/analyze", c.args[1])
    [] c.object = "costApi" /\ c.function = "getModels" ->
         get("/api/cost/models", <<>>)
    [] c.object = "analyticsApi" /\ c.function = "getMonthlyReport" ->
         get("/api/analytics/monthly-report",
             <<<<"year", OrElse(c.args[1], NowYear)>>,
               <<"month", OrElse(c.args[2], NowMonth)>>>>)
    [] c.object = "analyticsApi" /\ c.function = "getCostTrend" ->
         get("/api/analytics/cost-trend", <<<<"days", OrElse(c.args[1], "30")>>>>)
    [] c.object = "analyticsApi" /\ c.function = "getQualityTrend" ->
         get("/api/analytics/quality-trend", <<<<"days", OrElse(c.args[1], "30")>>>>)
    [] c.object = "analyticsApi" /\ c.function = "getBloatTrend" ->
         get("/api/analytics/bloat-trend", <<<<"days", OrElse(c.args[1], "30")>>>>)
    [] c.object = "securityApi" /\ c.function = "analyze" ->
         post("/api/security/analyze", c.args[1])
    [] c.object = "embeddingsApi" /\ c.function = "generate" ->
         post("/api/embeddings/generate", [texts |-> c.args[1]])
    [] c.object = "attentionApi" /\ c.function = "analyze" ->
         post("/api/attention/analyze", c.args[1])
    [] c.object = "contextApi" /\ c.function = "getRecallCurve" ->
         get("/api/context/recall-curve",
             <<<<"max_tokens", OrElse(c.args[1], "16000")>>>>)

\* A function of the API client is called: apiClient sends its request.
ApiCall ==
  /\ call # Null
  /\ call[1].fn = "apiClient"
  /\ result = Null
  /\ result' = Some(Request(call[1].call))
  /\ UNCHANGED <<call, api, queries>>
  /\ UNCHANGED storeVars
  /\ UNCHANGED viewVars
  /\ UNCHANGED backendVars
  /\ UNCHANGED archVars
  /\ UNCHANGED tokVars
  /\ UNCHANGED attVars

InitApi ==
  /\ InitCommon
  /\ api = attentionApi
  /\ cfg = BaseKey
  /\ result = Null
  /\ \E c \in ApiCalls : call = Some([fn |-> "apiClient", call |-> c])

NextApi ==
  \/ ApiCall

SpecApi == InitApi /\ [][NextApi]_vars

(* ------------------------------ the claims ----------------------------- *)
ClusterIds(snap) == 0 .. snap.key.k - 1

\* C1: requests for the same key that arrive while the key is being computed
\* start no further pipeline execution, and when that one execution publishes
\* its snapshot every waiting request is answered with exactly that snapshot.
C1_SingleFlight ==
  [][\A key \in DOMAIN cache :
       cache[key].status = "computing" =>
         /\ key \in DOMAIN execCount'
         /\ execCount'[key] = execCount[key]
         /\ cache[key].snap.exec = execCount[key]
         /\ (key \in DOMAIN cache' /\ cache'[key].status = "computing") =>
              cache[key].waiters \subseteq cache'[key].waiters
         /\ (key \in DOMAIN cache' /\ cache'[key].status = "ready") =>
              /\ cache'[key].snap = cache[key].snap
              /\ \A q \in cache[key].waiters :
                   /\ queries'[q].req # "waiting"
                   /\ Found(q, cache[key].snap) =>
                        queries'[q].data = Some(cache[key].snap)]_vars

\* C1 witness: two requests wait on one key, one execution was started.
C1_Witness ==
  \E key \in DOMAIN cache :
    /\ cache[key].status = "computing"
    /\ Cardinality(cache[key].waiters) >= 2
    /\ Execs(key) = 1

\* C2: when the pipeline of a key fails, every request waiting on the key
\* gets the error, the key keeps no entry (an entry is computing or ready,
\* never failed), and a request handled for a key without entry starts a new
\* execution.
C2_FailureNotKept ==
  [][/\ \A key \in DOMAIN cache :
          (cache[key].status = "computing" /\ key \notin DOMAIN cache') =>
            \A q \in cache[key].waiters :
              /\ queries'[q].reason = "CacheComputeError"
              /\ queries'[q].req # "waiting"
     /\ \A key \in DOMAIN cache' : cache'[key].status \in {"computing", "ready"}
     /\ \A key \in DOMAIN cache :
          (cache[key].status = "computing" /\ key \in DOMAIN cache') =>
            cache'[key].status \in {"computing", "ready"}
     /\ \A q \in DOMAIN queries :
          (queries[q].req = "sent" /\ queries'[q].req = "waiting"
             /\ cfg \notin DOMAIN cache) =>
            /\ cfg \in DOMAIN cache'
            /\ cache'[cfg].status = "computing"
            /\ execCount'[cfg] = Execs(cfg) + 1]_vars

\* C2 witness: after a failed execution a later request started the second
\* execution of the key, and its snapshot reached a query.
C2_Witness ==
  /\ failures > 0
  /\ \E key \in DOMAIN cache :
       /\ cache[key].status = "ready"
       /\ cache[key].snap.exec = 2
       /\ \E q \in DOMAIN queries : queries[q].data = Some(cache[key].snap)

C4_KeyChangeForcesRead ==
  [][(/\ ~mounted
      /\ activeModule' = "profiler"
      /\ Data(QProfiles) # Null
      /\ Data(QProfiles)[1].key # cfg)
       => queries'[QProfiles].req = "sent"]_vars

\* C5 (as claimed): every function a query of the profiler view calls is a
\* function of the attentionApi object, and no call fails with a TypeError.
C5_ReadsAreApiFunctions ==
  \A q \in DOMAIN queries :
    q.name # "tokenize" =>
      /\ queryFn(q) \in api
      /\ queries[q].reason # "TypeError"
      /\ queries[q].error # "TypeError"

\* C6: a published snapshot is never changed and its key's pipeline never
\* runs again; a click or hover in the view (the selection changes while the
\* view stays mounted) changes neither the Profile Cache nor the cached head
\* profiles and metadata.
C6_SnapshotReadOnly ==
  [][/\ \A key \in DOMAIN cache :
          cache[key].status = "ready" =>
            /\ key \in DOMAIN cache'
            /\ cache'[key] = cache[key]
            /\ execCount'[key] = execCount[key]
     /\ (mounted /\ activeModule' = activeModule
           /\ <<selectedHead, selectedCluster>>' # <<selectedHead, selectedCluster>>) =>
          /\ cache' = cache
          /\ execCount' = execCount
          /\ queries'[QProfiles] = queries[QProfiles]
          /\ queries'[QMetadata] = queries[QMetadata]]_vars

\* C6 witness: a head was clicked and a cluster selected, and both reads
\* were answered from the published snapshot.
C6_Witness ==
  /\ selectedHead # Null
  /\ selectedCluster # Null
  /\ cfg \in DOMAIN cache
  /\ cache[cfg].status = "ready"
  /\ Data(QExplanation(selectedHead[1].layer, selectedHead[1].head))
       = Some(cache[cfg].snap)
  /\ clusterData = Some(cache[cfg].snap)

\* C7 (as claimed): a cluster-info read has data only for a cluster id of
\* the snapshot, and the legend shows a label and a count only for cluster
\* ids the loaded snapshot contains.
C7_NoDefaultForAbsentId ==
  /\ \A q \in DOMAIN queries :
       (q.name = "cluster-info" /\ queries[q].data # Null) =>
         q.args[1] \in ClusterIds(queries[q].data[1])
  /\ plotShown =>
       \A clusterId \in DOMAIN Legend :
         clusterId \in ClusterIds(Data(QProfiles)[1])

\* C8: a loaded snapshot has one point per (layer, head), NumLayers x
\* HeadsPerLayer in all, and the mounted view plots one marker per point.
C8_OneMarkerPerHead ==
  Data(QProfiles) # Null =>
    LET pts == points
        mks == Markers
    IN  /\ Len(pts) = NumLayers * HeadsPerLayer
        /\ \A h \in Heads :
             Cardinality({i \in 1 .. Len(pts) :
                            <<pts[i].layer, pts[i].head>> = h}) = 1
        /\ mounted =>
             /\ plotShown
             /\ Len(mks) = Len(pts)
             /\ \A i \in 1 .. Len(pts) : mks[i].point = pts[i]

\* C8 witness: the plot of a loaded snapshot is on screen.
C8_Witness == plotShown /\ Len(Markers) = NumLayers * HeadsPerLayer

C10_RoleOfClusterId ==
  /\ plotShown =>
       /\ \A i \in 1 .. Len(points) :
            /\ points[i].cluster + 1 \in DOMAIN Roles
            /\ points[i].label = Roles[points[i].cluster + 1]
            /\ Markers[i].backgroundColor = RoleList[points[i].cluster + 1].color
       /\ \A c \in LegendIds :
            count(c) > 0 =>
              /\ Legend[c].label = RoleList[c + 1].role
              /\ Legend[c].backgroundColor = RoleList[c + 1].color
  /\ selectedHead # Null =>
       /\ selectedHead[1].cluster + 1 \in DOMAIN Roles
       /\ selectedHead[1].label = Roles[selectedHead[1].cluster + 1]

\* C11 (as claimed): every marker of a rendered non-empty point list,
\* a flat one included, has left and top within 0..100 percent and a width
\* and height within 4..8 px.
C11_MarkersPositioned ==
  (call # Null /\ call[1].fn = "RenderPlot" /\ result # Null) =>
    \A i \in DOMAIN result[1] :
      /\ Within(result[1][i].left, 0, 100)
      /\ Within(result[1][i].top, 0, 100)
      /\ Within(result[1][i].width, 4, 8)
      /\ Within(result[1][i].height, 4, 8)

LargestAxisRange(pts) ==
  MathMax(<<MathMax(xValues(pts)) - MathMin(xValues(pts)),
            MathMax(yValues(pts)) - MathMin(yValues(pts)),
            MathMax(zValues(pts)) - MathMin(zValues(pts))>>)

\* C14 (as claimed): the normalised list has the length of the input (empty
\* for empty); every normalised coordinate lies in [-2, 2]; and each is the
\* distance from its axis minimum scaled by 4 / (largest axis range), less 2
\* (for coinciding points every factor gives the same value).
C14_NormalisedToRange ==
  (call # Null /\ call[1].fn = "normalizedPoints" /\ result # Null) =>
    LET pts == call[1].points
        out == result[1]
    IN  /\ Len(out) = Len(pts)
        /\ \A i \in DOMAIN out :
             /\ Within(out[i].x, -2, 2)
             /\ Within(out[i].y, -2, 2)
             /\ Within(out[i].z, -2, 2)
             /\ LET L == LargestAxisRange(pts) IN
                /\ out[i].x.num * L =
                     ((pts[i].x - MathMin(xValues(pts))) * 4 - 2 * L) * out[i].x.den
                /\ out[i].y.num * L =
                     ((pts[i].y - MathMin(yValues(pts))) * 4 - 2 * L) * out[i].y.den
                /\ out[i].z.num * L =
                     ((pts[i].z - MathMin(zValues(pts))) * 4 - 2 * L) * out[i].z.den

\* The module that provides a README feature: the one whose sidebar label,
\* id or component carries the feature's name; none for a feature that no
\* sidebar item, module id or component is named after.
FeatureModule(f) ==
  CASE f = "Tokenizer Lab" -> Some("tokenizer")
    [] f = "Embeddings" -> Some("embeddings")
    [] f = "Attention Mechanism" -> Some("attention")
    [] f = "Context Window" -> Some("context")
    [] f = "Red Teaming" -> Some("redteaming")
    [] f = "Cost Router" -> Some("router")
    [] OTHER -> Null

\* C15 (as claimed): every feature of the README has a module, with a button
\* in the sidebar and a component in MainLayout, and that module is the
\* active one or becomes it with one click, in every state of the app.
C15_FeaturesAreModules ==
  \A f \in ReadmeFeatures :
    /\ FeatureModule(f) # Null
    /\ FeatureModule(f)[1] \in ModuleId
    /\ FeatureModule(f)[1] \in NavIds
    /\ FeatureModule(f)[1] \in DOMAIN moduleComponents
    /\ \/ activeModule = FeatureModule(f)[1]
       \/ ENABLED setActiveModule(FeatureModule(f)[1])

\* C16: every request the API client sends has a method and path the backend
\* README documents, and every documented endpoint is the method and path of
\* the request of some function of the API client.
C16_ClientMatchesReadme ==
  /\ (call # Null /\ call[1].fn = "apiClient" /\ result # Null) =>
       <<result[1].method, result[1].path>> \in ReadmeEndpoints
  /\ \A e \in ReadmeEndpoints :
       \E c \in ApiCalls : <<Request(c).method, Request(c).path>> = e

\* C16 witness: the monthly report was asked for without arguments and the
\* request went to the documented path with the current year and month.
C16_Witness ==
  /\ call # Null
  /\ call[1].fn = "apiClient"
  /\ result # Null
  /\ call[1].call.function = "getMonthlyReport"
  /\ call[1].call.args = <<Undefined, Undefined>>
  /\ result[1].method = "GET"
  /\ result[1].path = "/api/analytics/monthly-report"
  /\ result[1].query = <<<<"year", NowYear>>, <<"month", NowMonth>>>>

C18_StabilityShown ==
  (call # Null /\ call[1].fn = "RenderHeader" /\ result # Null
     /\ call[1].metadata # Null
     /\ call[1].metadata[1].stability_score # Null) =>
    /\ result[1].node = "div"
    /\ result[1].score = toFixed2(call[1].metadata[1].stability_score[1])

\* C19: in the architecture view the drawer is open exactly when a block is
\* selected; while it is open Escape, the backdrop and the close button can
\* each be used, and a step of any of them leaves no block selected, the
\* hovered block and the store as they were; Escape with no drawer open
\* changes nothing.
C19_DrawerFollowsSelection ==
  /\ [](archMounted => (drawerOpen <=> selectedBlock # Null))
  /\ [](selectedBlock # Null => archMounted)
  /\ [](drawerOpen =>
          ENABLED handleEscape /\ ENABLED BackdropClick /\ ENABLED CloseClick)
  /\ [][(handleEscape \/ BackdropClick \/ CloseClick) =>
          /\ ~drawerOpen'
          /\ selectedBlock' = Null
          /\ hoveredBlock' = hoveredBlock
          /\ storeVars' = storeVars
          /\ (~drawerOpen => vars' = vars)]_vars

\* C19 witness: a block's drawer is open while the pointer is over another
\* block, the state in which closing the drawer must keep the highlight.
C19_Witness ==
  /\ drawerOpen
  /\ hoveredBlock # Null
  /\ hoveredBlock # selectedBlock
  /\ mathModeEnabled

\* C20: the tokens and statistics the tokenizer panel shows are those of a
\* response to a request that carried the current input text, never those of
\* a response for another text, in whatever order the responses arrive; and
\* every step that sends a tokenize request sends it while the input text is
\* not empty, carrying that text.
C20_TokensOfCurrentText ==
  /\ [](tokensShown # Null => tokensShown = Some(inputText))
  /\ [][\A q \in DOMAIN queries' :
          (/\ q.name = "tokenize"
           /\ queries'[q].req = "sent"
           /\ (q \notin DOMAIN queries \/ queries[q].req # "sent")) =>
            /\ inputText' # ""
            /\ posted'[q] = inputText']_vars

\* C20 witness: after an edit the panel shows the tokens of the current
\* text while the request of the earlier, different text is still
\* unanswered, so that its response arrives afterwards.
C20_Witness ==
  /\ tokensShown = Some("hello")
  /\ QTokenize(InitialText) \in DOMAIN queries
  /\ queries[QTokenize(InitialText)].req = "sent"

\* C23 (as claimed): in the profiler view the "How to use" panel is shown
\* exactly when neither a head nor a cluster is selected; with any cluster id
\* of 0..4 or any head selected it is not shown.
C23_InstructionsWhenNothingSelected ==
  mounted =>
    (instructionsShown <=> (selectedHead = Null /\ selectedCluster = Null))

\* C22 (as claimed): for every module that can be the active module the
\* context bar shows a defined, non-empty title, the label of that module.
C22_TitleDefined ==
  /\ title # Null
  /\ title[1] # ""
  /\ title[1] = moduleLabels[activeModule]

\* C25: the active module is always one of the eight module ids and has a
\* component in moduleComponents; it is 'architecture' initially; a click on
\* a navigation item makes that item's module the active one, every item
\* but the separator (and the active one) can be clicked, the active module
\* changes by such clicks only, and the separator is never the active
\* module.
C25_ActiveModuleIsNavItem ==
  /\ activeModule = "architecture"
  /\ [](/\ activeModule \in ModuleId
        /\ Cardinality(ModuleId) = 8
        /\ activeModule \in DOMAIN moduleComponents
        /\ activeModule # "separator")
  /\ [](\A i \in DOMAIN navItems :
          ENABLED NavItemClick(i) <=>
            (~navItems[i].isSeparator /\ navItems[i].id # activeModule))
  /\ [][/\ \A i \in DOMAIN navItems :
             NavItemClick(i) => activeModule' = navItems[i].id
        /\ activeModule' # activeModule =>
             \E i \in DOMAIN navItems : NavItemClick(i)]_vars

\* C25 witness: the item after the separator was clicked with the sidebar
\* collapsed, and its module is the active one.
C25_Witness ==
  /\ activeModule = navItems[9].id
  /\ sidebarCollapsed

\* C21: the layer and head start at 0, and every attention-analysis request
\* the attention view sends carries the view's current text, layer and head,
\* with the layer index and the head index in 0..11, whatever the sliders
\* were moved to before.
C21_RequestWithinArchitecture ==
  /\ attLayer = 0 /\ attHead = 0
  /\ [](mutation.status = "pending" =>
          /\ mutation.variables[1].layer \in 0 .. SliderMax
          /\ mutation.variables[1].head \in 0 .. SliderMax)
  /\ [][handleAnalyze =>
          mutation'.variables =
            Some([text |-> attText, layer |-> attLayer, head |-> attHead])]_vars

\* C21 witness: a request is in flight that was sent with both sliders at
\* their upper end.
C21_Witness ==
  /\ mutation.status = "pending"
  /\ mutation.variables[1].layer = SliderMax
  /\ mutation.variables[1].head = SliderMax

\* C24 (as claimed): whenever the hover-info panel is rendered, the hovered
\* cell's row and column are valid indices of the displayed attention matrix
\* and token list.
C24_HoveredCellValid ==
  hoverInfoShown =>
    /\ hoveredCell[1].row \in 0 .. matrixLength - 1
    /\ hoveredCell[1].col \in 0 .. rowLength - 1
    /\ hoveredCell[1].row \in 0 .. tokensLength - 1
    /\ hoveredCell[1].col \in 0 .. tokensLength - 1

====
